---- MODULE Spec2Model ----
(***************************************************************************)
(* Symbol resolution of the TradingView -> Dhan webhook bridge             *)
(* (src/main.py): the memory map symbol_cache, the in-process dataset view *)
(* csv_cache["data"], the persisted file security_id_list.csv and the      *)
(* remote catalog, with the operations that read and write them.           *)
(*                                                                         *)
(* Text is modelled as strings; the file holds the text of each cell, and  *)
(* pd.read_csv types every column from that text, as pandas does.          *)
(***************************************************************************)
EXTENDS Integers, Sequences, FiniteSets, TLC

VARIABLES
    symbol_cache,   \* the memory map: cache key -> identifier text
    csv_cache,      \* [data, error, source]: the in-process dataset view
    file,           \* the file at SECURITY_CSV_PATH
    dhan,           \* whether the broker client was constructed
    url,            \* whether CSV_DOWNLOAD_URL is configured
    pc,             \* each request slot: idle, or suspended in receive_alert
    changes,        \* how often the file was changed from outside
    last            \* what the most recently completed operation did

vars == <<symbol_cache, csv_cache, file, dhan, url, pc, changes, last>>

(***************************************************************************)
(* Bounds.                                                                 *)
(***************************************************************************)
\* Requests that may be in flight at once.
MaxReq == 2

\* Changes of the file from outside the process in one run.
MaxDiskChanges == 1

\* Rows of the file up to which the append operation is called on its own.
MaxRows == 3

(***************************************************************************)
(* Python values.                                                          *)
(***************************************************************************)
\* An optional text: None, or a str.
None == [some |-> FALSE, v |-> ""]

Some(s) == [some |-> TRUE, v |-> s]

\* `if x:` for an optional text: None and "" are falsy.
Truthy(o) == o.some /\ o.v # ""

(***************************************************************************)
(* pandas: a cell of a frame is an integer (int64 column) or a text        *)
(* (object column); s is what str() of the cell gives.                     *)
(***************************************************************************)
Digits == {"0", "1", "2", "3", "4", "5", "6", "7", "8", "9"}

\* Text that pd.read_csv parses as an integer.
IsIntLiteral(s) ==
    /\ Len(s) > 0
    /\ \A i \in 1..Len(s) : SubSeq(s, i, i) \in Digits

\* str(int(s)): the decimal text of the parsed integer (leading zeros go).
RECURSIVE IntText(_)
IntText(s) ==
    IF Len(s) > 1 /\ SubSeq(s, 1, 1) = "0"
    THEN IntText(SubSeq(s, 2, Len(s)))
    ELSE s

StrCell(s) == [ty |-> "str", s |-> s]

IntCell(s) == [ty |-> "int", s |-> IntText(s)]

\* str(cell)
PyStr(cell) == cell.s

\* The elementwise `column == text` of a filter: an int64 cell never equals a str.
CellEq(cell, text) == cell.ty = "str" /\ cell.s = text

Columns == {"SEM_EXM_EXCH_ID", "SEM_TRADING_SYMBOL", "SEM_SERIES", "SEM_SMST_SECURITY_ID"}

\* A row of file text.
RawRow(exchange, symbol, instrument, security_id) ==
    [SEM_EXM_EXCH_ID |-> exchange, SEM_TRADING_SYMBOL |-> symbol,
     SEM_SERIES |-> instrument, SEM_SMST_SECURITY_ID |-> security_id]

(***************************************************************************)
(* The file: missing, zero-byte, unparseable, a table without the expected *)
(* columns, or a table with them (rows of text under the header).         *)
(***************************************************************************)
\* expired: the file is older than the expiry threshold (only a file that was on
\* disk before the process can be; the code never reads its age).
FileOf(kind, rows) == [kind |-> kind, rows |-> rows, expired |-> FALSE]

Expired(f) == [f EXCEPT !.expired = TRUE]

MissingFile == FileOf("missing", <<>>)

\* os.path.exists(SECURITY_CSV_PATH)
Exists(f) == f.kind # "missing"

\* A frame: whether it has the expected columns, and its typed rows.
Frame(cols, rows) == [loaded |-> TRUE, cols |-> cols, rows |-> rows]

\* csv_cache["data"] is None
NoData == [loaded |-> FALSE, cols |-> FALSE, rows |-> <<>>]

\* pd.DataFrame(columns=[...]): no rows, the expected columns.
EmptyFrame == Frame(TRUE, <<>>)

\* Whether pd.read_csv raises on the file (EmptyDataError, ParserError).
ReadRaises(f) == f.kind \in {"zero", "garbage"}

\* A column is int64 when every cell of it parses as an integer.
ColIsInt(rows, c) ==
    /\ Len(rows) > 0
    /\ \A i \in 1..Len(rows) : IsIntLiteral(rows[i][c])

\* pd.read_csv of a readable file.
ReadCsv(f) ==
    IF f.kind = "nocols"
    THEN Frame(FALSE, <<>>)
    ELSE Frame(TRUE,
               [i \in 1..Len(f.rows) |->
                   [c \in Columns |->
                       IF ColIsInt(f.rows, c)
                       THEN IntCell(f.rows[i][c])
                       ELSE StrCell(f.rows[i][c])]])

\* df.to_csv(SECURITY_CSV_PATH, index=False): the text of every cell.
ToCsv(df) ==
    FileOf("ok", [i \in 1..Len(df.rows) |-> [c \in Columns |-> PyStr(df.rows[i][c])]])

\* The rows of a frame matching (exchange, symbol, instrument), in order.
Matching(df, exchange, symbol, instrument) ==
    SelectSeq(df.rows,
              LAMBDA r : /\ CellEq(r["SEM_EXM_EXCH_ID"], exchange)
                         /\ CellEq(r["SEM_TRADING_SYMBOL"], symbol)
                         /\ CellEq(r["SEM_SERIES"], instrument))

(***************************************************************************)
(* The remote catalog: what dhan.fetch_security_list() returns when the    *)
(* call succeeds, in catalog order.                                        *)
(***************************************************************************)
CatalogRow(exchange, symbol, series, security_id) ==
    [SEM_EXM_EXCH_ID |-> StrCell(exchange), SEM_TRADING_SYMBOL |-> StrCell(symbol),
     SEM_SERIES |-> StrCell(series), SEM_SMST_SECURITY_ID |-> IntCell(security_id)]

Catalog ==
    << CatalogRow("BSE", "INFY", "EQ", "500209"),
       CatalogRow("NSE", "INFY", "EQ", "1594"),
       CatalogRow("NSE", "3045", "EQ", "777"),
       CatalogRow("NSE", "INFY", "EQ", "2222") >>

\* What one call of dhan.fetch_security_list() may do: raise, return None, return
\* a table without SEM_TRADING_SYMBOL, or return the catalog.
RemoteOutcomes == {"raise", "none", "nocols", "list"}

\* Whether a write to SECURITY_CSV_PATH goes through or raises (the file then
\* stays as it was).
DiskOutcomes == {"ok", "fail"}

(***************************************************************************)
(* create_empty_csv                                                        *)
(***************************************************************************)
create_empty_csv(f, disk) ==
    IF disk = "ok"
    THEN [ret |-> TRUE, file |-> ToCsv(EmptyFrame)]
    ELSE [ret |-> FALSE, file |-> f]

(***************************************************************************)
(* save_security_id_to_csv                                                 *)
(***************************************************************************)
save_security_id_to_csv(f, exchange, symbol, instrument, security_id, disk) ==
    IF Exists(f) /\ ReadRaises(f)
    THEN [ret |-> FALSE, file |-> f]                  \* pd.read_csv raised
    ELSE LET df == IF Exists(f) THEN ReadCsv(f) ELSE EmptyFrame
             new_row == [SEM_EXM_EXCH_ID |-> StrCell(exchange),
                         SEM_TRADING_SYMBOL |-> StrCell(symbol),
                         SEM_SERIES |-> StrCell(instrument),
                         SEM_SMST_SECURITY_ID |-> StrCell(security_id)]
         IN  IF ~df.cols
             THEN [ret |-> FALSE, file |-> f]         \* KeyError
             ELSE IF Matching(df, exchange, symbol, instrument) = <<>>
             THEN IF disk = "ok"
                  THEN [ret |-> TRUE,
                        file |-> ToCsv(Frame(TRUE, Append(df.rows, new_row)))]
                  ELSE [ret |-> FALSE, file |-> f]    \* to_csv raised
             ELSE [ret |-> FALSE, file |-> f]

(***************************************************************************)
(* fetch_security_id_from_dhan                                             *)
(***************************************************************************)
\* matches: the catalog rows with the symbol and the series (any exchange).
CatalogMatches(symbol, instrument) ==
    SelectSeq(Catalog,
              LAMBDA r : /\ CellEq(r["SEM_TRADING_SYMBOL"], symbol)
                         /\ CellEq(r["SEM_SERIES"], instrument))

\* A lookup that takes the catalog's first row when nothing matches.
fetch_security_id_from_dhan_FirstRow(symbol, instrument, exchange, client, outcome) ==
    IF ~client \/ outcome # "list"
    THEN None
    ELSE LET matches == CatalogMatches(symbol, instrument)
         IN  IF matches # <<>>
             THEN Some(PyStr(matches[1]["SEM_SMST_SECURITY_ID"]))
             ELSE Some(PyStr(Catalog[1]["SEM_SMST_SECURITY_ID"]))

\* A lookup that calls the catalog whether or not there is a broker client.
fetch_security_id_from_dhan_NoClientCheck(symbol, instrument, exchange, client, outcome) ==
    IF outcome # "list"
    THEN None
    ELSE LET matches == CatalogMatches(symbol, instrument)
         IN  IF matches # <<>>
             THEN Some(PyStr(matches[1]["SEM_SMST_SECURITY_ID"]))
             ELSE None

fetch_security_id_from_dhan(symbol, instrument, exchange, client, outcome) ==
    IF ~client
    THEN None
    ELSE IF outcome # "list"
    THEN None
    ELSE LET matches == CatalogMatches(symbol, instrument)
         IN  IF matches # <<>>
             THEN Some(PyStr(matches[1]["SEM_SMST_SECURITY_ID"]))
             ELSE None

(***************************************************************************)
(* load_csv_cache                                                          *)
(***************************************************************************)
\* What urllib.request.urlretrieve may do: raise, or write a body to the path.
DownloadFailed == [ok |-> FALSE, body |-> MissingFile]

Downloaded(body) == [ok |-> TRUE, body |-> body]

\* download_csv: True and the body at the destination, or False.
download_csv(f, dl) ==
    IF dl.ok
    THEN [ret |-> TRUE, file |-> dl.body]
    ELSE [ret |-> FALSE, file |-> f]

CsvCache(data, error, source) == [data |-> data, error |-> error, source |-> source]

\* The `except` of load_csv_cache: data stays what it was.
LoadError(cc) == CsvCache(cc.data, "Error loading CSV", "error")

\* Lines 249-253: create the empty file; data stays what it was.
LoadNone_NoCreate(cc, f, disk, tried) ==
    [ret |-> FALSE,
     csv_cache |-> CsvCache(cc.data,
                            "CSV not available initially - will fetch from Dhan API",
                            "none"),
     file |-> f,
     tried_download |-> tried]

LoadNone(cc, f, disk, tried) ==
    [ret |-> FALSE,
     csv_cache |-> CsvCache(cc.data,
                            "CSV not available initially - will fetch from Dhan API",
                            "none"),
     file |-> create_empty_csv(f, disk).file,
     tried_download |-> tried]

\* Lines 234-238 and 243-247: read the file at the path into the view.
LoadFile(cc, f, source, tried) ==
    IF ReadRaises(f)
    THEN [ret |-> FALSE, csv_cache |-> LoadError(cc), file |-> f, tried_download |-> tried]
    ELSE [ret |-> TRUE, csv_cache |-> CsvCache(ReadCsv(f), "None", source), file |-> f,
          tried_download |-> tried]

\* Lines 240-253: download and load, or fall through to the empty file.
LoadDownload(cc, f, dl, disk) ==
    LET got == download_csv(f, dl)
    IN  IF got.ret
        THEN LoadFile(cc, got.file, "downloaded", TRUE)
        ELSE LoadNone(cc, got.file, disk, TRUE)

\* An expiry policy without its fallback: an expired file is downloaded anew, and a
\* failed download leaves the empty file.
load_csv_cache_ExpiryNoFallback(cc, f, has_url, dl, disk) ==
    IF Exists(f) /\ ~f.expired
    THEN LoadFile(cc, f, "local_file", FALSE)
    ELSE IF has_url
    THEN LoadDownload(cc, f, dl, disk)
    ELSE LoadNone(cc, f, disk, FALSE)

load_csv_cache(cc, f, has_url, dl, disk) ==
    IF Exists(f)
    THEN LoadFile(cc, f, "local_file", FALSE)
    ELSE IF has_url
    THEN LoadDownload(cc, f, dl, disk)
    ELSE LoadNone(cc, f, disk, FALSE)

(***************************************************************************)
(* get_security_id                                                         *)
(***************************************************************************)
\* cache_key = f"{exchange}:{ticker_symbol}:{instrument}"
CacheKey(exchange, ticker_symbol, instrument) ==
    exchange \o ":" \o ticker_symbol \o ":" \o instrument

\* An insertion that drops every other entry of the map.
MemoryInsert_Replace(sc, cache_key, security_id) == (cache_key :> security_id)

\* symbol_cache[cache_key] = security_id
MemoryInsert(sc, cache_key, security_id) == (cache_key :> security_id) @@ sc

\* What a call did: its return value (or that it raised), the tier that answered,
\* what it touched, and the state it left.
Outcome(ret, raised, tier, scanned, fetched, file_read, appended, sc, cc, f) ==
    [ret |-> ret, raised |-> raised, tier |-> tier, scanned |-> scanned,
     fetched |-> fetched, file_read |-> file_read, appended |-> appended,
     symbol_cache |-> sc, csv_cache |-> cc, file |-> f]

\* Lines 288-298: the remote lookup and, on a hit, the write-back.
RemoteTier(sc, cc, f, ticker_symbol, instrument, exchange, client, outcome, disk, scanned) ==
    LET cache_key == CacheKey(exchange, ticker_symbol, instrument)
        security_id ==
            fetch_security_id_from_dhan(ticker_symbol, instrument, exchange, client, outcome)
    IN  IF Truthy(security_id)
        THEN LET saved == save_security_id_to_csv(f, exchange, ticker_symbol, instrument,
                                                  security_id.v, disk)
                 sc2 == MemoryInsert(sc, cache_key, security_id.v)
             IN  IF Exists(saved.file)
                 THEN IF ReadRaises(saved.file)
                      THEN \* pd.read_csv of line 295 raises out of get_security_id
                           Outcome(None, TRUE, "remote", scanned, client, TRUE, saved.ret,
                                   sc2, cc, saved.file)
                      ELSE Outcome(security_id, FALSE, "remote", scanned, client, TRUE,
                                   saved.ret, sc2,
                                   [cc EXCEPT !.data = ReadCsv(saved.file)], saved.file)
                 ELSE Outcome(security_id, FALSE, "remote", scanned, client, TRUE,
                              saved.ret, sc2, cc, saved.file)
        ELSE Outcome(None, FALSE, "miss", scanned, client, FALSE, FALSE, sc, cc, f)

\* The dataset tier without the promotion of its hit into the memory map.
DatasetTier_NoPromote(sc, cc, f, ticker_symbol, instrument, exchange, client, outcome, disk) ==
    LET filtered == Matching(cc.data, exchange, ticker_symbol, instrument)
    IN  IF cc.data.loaded /\ cc.data.cols /\ filtered # <<>>
        THEN Outcome(Some(PyStr(filtered[1]["SEM_SMST_SECURITY_ID"])), FALSE, "dataset",
                     TRUE, FALSE, FALSE, FALSE, sc, cc, f)
        ELSE RemoteTier(sc, cc, f, ticker_symbol, instrument, exchange, client, outcome,
                        disk, cc.data.loaded)

\* Lines 272-286: the scan of the dataset view, falling through to the remote tier.
DatasetTier(sc, cc, f, ticker_symbol, instrument, exchange, client, outcome, disk) ==
    LET cache_key == CacheKey(exchange, ticker_symbol, instrument)
        filtered == Matching(cc.data, exchange, ticker_symbol, instrument)
    IN  IF cc.data.loaded /\ cc.data.cols /\ filtered # <<>>
        THEN LET security_id == PyStr(filtered[1]["SEM_SMST_SECURITY_ID"])
             IN  Outcome(Some(security_id), FALSE, "dataset", TRUE, FALSE, FALSE, FALSE,
                         MemoryInsert(sc, cache_key, security_id), cc, f)
        ELSE \* no view, a KeyError caught at line 285, or no match
             RemoteTier(sc, cc, f, ticker_symbol, instrument, exchange, client, outcome,
                        disk, cc.data.loaded)

\* The tiers in the wrong order: the dataset view before the memory map.
get_security_id_DatasetFirst(sc, cc, f, ticker_symbol, instrument, exchange, client, outcome, disk) ==
    LET cache_key == CacheKey(exchange, ticker_symbol, instrument)
        filtered == Matching(cc.data, exchange, ticker_symbol, instrument)
    IN  IF cc.data.loaded /\ cc.data.cols /\ filtered # <<>>
        THEN DatasetTier(sc, cc, f, ticker_symbol, instrument, exchange, client, outcome,
                         disk)
        ELSE IF cache_key \in DOMAIN sc
        THEN Outcome(Some(sc[cache_key]), FALSE, "memory", FALSE, FALSE, FALSE, FALSE,
                     sc, cc, f)
        ELSE DatasetTier(sc, cc, f, ticker_symbol, instrument, exchange, client, outcome,
                         disk)

get_security_id(sc, cc, f, ticker_symbol, instrument, exchange, client, outcome, disk) ==
    LET cache_key == CacheKey(exchange, ticker_symbol, instrument)
    IN  IF cache_key \in DOMAIN sc
        THEN Outcome(Some(sc[cache_key]), FALSE, "memory", FALSE, FALSE, FALSE, FALSE,
                     sc, cc, f)
        ELSE DatasetTier(sc, cc, f, ticker_symbol, instrument, exchange, client, outcome,
                         disk)

(***************************************************************************)
(* The environment: the files that may be found on disk, the bodies a      *)
(* download may deliver, the alerts that may arrive.                       *)
(***************************************************************************)
InfyFile == FileOf("ok", << RawRow("NSE", "INFY", "EQ", "1594") >>)

\* What the process may find on disk when it starts.
DiskFiles ==
    { MissingFile,
      FileOf("zero", <<>>),
      FileOf("nocols", <<>>),
      FileOf("ok", <<>>),
      InfyFile,
      Expired(InfyFile) }

\* What the file may become while the process runs: removed, truncated, replaced.
ChangedFiles == { MissingFile, FileOf("zero", <<>>), FileOf("nocols", <<>>), InfyFile }

DownloadOutcomes ==
    { DownloadFailed, Downloaded(InfyFile), Downloaded(FileOf("garbage", <<>>)) }

\* An alert: its body parses or not, its secret matches or not, and the fields
\* receive_alert reads (the symbol already upper case).
Payload(kind, symbol, instrument, exchange) ==
    [kind |-> kind, symbol |-> symbol, instrument |-> instrument, exchange |-> exchange]

NoPayload == Payload("none", "", "", "")

Payloads ==
    { Payload("ok", "INFY", "EQ", "NSE"),
      Payload("ok", "3045", "EQ", "NSE"),
      Payload("ok", "TCS", "EQ", "NSE"),
      Payload("badsecret", "INFY", "EQ", "NSE"),
      Payload("badjson", "", "", "") }

Slots == 1..MaxReq

\* symbol_cache = {}
EmptyMap == [k \in {} |-> ""]

\* Whether the file's text holds a row for the key (any identifier).
InFile(f, exchange, symbol, instrument) ==
    /\ f.kind = "ok"
    /\ \E i \in 1..Len(f.rows) :
          /\ f.rows[i]["SEM_EXM_EXCH_ID"] = exchange
          /\ f.rows[i]["SEM_TRADING_SYMBOL"] = symbol
          /\ f.rows[i]["SEM_SERIES"] = instrument

(***************************************************************************)
(* The record of the most recent resolution or load: what was asked, what  *)
(* came back, what it touched, whether the file held the key before, how   *)
(* many other requests were in flight, and how often the file had been     *)
(* changed from outside by then. remote is what the catalog call did, for  *)
(* the calls that record it. seq alternates from one record to the next.   *)
(***************************************************************************)
Done(op, payload, out, dl, disk, inflight) ==
    [op |-> op, payload |-> payload,
     ret |-> out.ret, raised |-> out.raised, tier |-> out.tier,
     scanned |-> out.scanned, fetched |-> out.fetched, file_read |-> out.file_read,
     appended |-> out.appended,
     in_file |-> InFile(file, payload.exchange, payload.symbol, payload.instrument),
     dl |-> dl, disk |-> disk, remote |-> "n/a", inflight |-> inflight,
     changes |-> changes, seq |-> 1 - last.seq]

\* An operation that resolved nothing.
NoOutcome ==
    [ret |-> None, raised |-> FALSE, tier |-> "none", scanned |-> FALSE,
     fetched |-> FALSE, file_read |-> FALSE, appended |-> FALSE]

Init ==
    /\ symbol_cache = EmptyMap
    /\ csv_cache = CsvCache(NoData, "None", "unset")
    /\ file \in DiskFiles
    /\ dhan \in BOOLEAN
    /\ url \in BOOLEAN
    /\ pc = [r \in Slots |-> "idle"]
    /\ changes = 0
    /\ last = [op |-> "init", payload |-> NoPayload,
               ret |-> None, raised |-> FALSE, tier |-> "none", scanned |-> FALSE,
               fetched |-> FALSE, file_read |-> FALSE, appended |-> FALSE,
               in_file |-> FALSE, dl |-> "none", disk |-> "none", remote |-> "n/a",
               inflight |-> {}, changes |-> 0, seq |-> 0]

\* The other requests suspended in receive_alert.
InFlight(r) == {q \in Slots \ {r} : pc[q] = "awaiting"}

\* An alert arrives: receive_alert starts and suspends for the body
\* (`await request.json()`, the handler's only suspension point).
Arrive(r) ==
    /\ pc[r] = "idle"
    /\ pc' = [pc EXCEPT ![r] = "awaiting"]
    /\ UNCHANGED <<symbol_cache, csv_cache, file, dhan, url, changes, last>>

\* receive_alert from the body's arrival to its response, which runs without
\* suspension: the tests of the payload and of the client, then get_security_id.
\* (The order placement that follows a resolution touches none of this state.)
receive_alert(r) ==
    /\ pc[r] = "awaiting"
    /\ pc' = [pc EXCEPT ![r] = "idle"]
    /\ UNCHANGED <<dhan, url, changes>>
    /\ \E p \in Payloads :
        IF p.kind # "ok" \/ ~dhan
        THEN \* HTTP 400, HTTP 401, or "Dhan connection not initialized"
             /\ last' = [last EXCEPT !.inflight = @ \ {r}]
             /\ UNCHANGED <<symbol_cache, csv_cache, file>>
        ELSE \E remote \in RemoteOutcomes, disk \in DiskOutcomes :
                LET out == get_security_id(symbol_cache, csv_cache, file, p.symbol,
                                           p.instrument, p.exchange, dhan, remote, disk)
                IN  /\ symbol_cache' = out.symbol_cache
                    /\ csv_cache' = out.csv_cache
                    /\ file' = out.file
                    /\ last' = Done("resolve", p, out, "none",
                                    IF out.tier = "remote" THEN disk ELSE "none",
                                    InFlight(r))

\* load_csv_cache runs: at startup, or re-invoked later.
LoadCsvCache ==
    /\ \E dl \in DownloadOutcomes, disk \in DiskOutcomes :
        LET out == load_csv_cache(csv_cache, file, url, dl, disk)
        IN  /\ csv_cache' = out.csv_cache
            /\ file' = out.file
            /\ last' = Done("load", NoPayload,
                            [NoOutcome EXCEPT !.fetched = out.tried_download],
                            IF dl.ok THEN "ok" ELSE "fail",
                            IF out.csv_cache.source = "none" THEN disk ELSE "none", {})
    /\ UNCHANGED <<symbol_cache, dhan, url, pc, changes>>

\* The file is replaced, damaged or removed from outside the process.
DiskChange ==
    /\ changes < MaxDiskChanges
    /\ changes' = changes + 1
    /\ \E f \in ChangedFiles : f # file /\ file' = f
    /\ UNCHANGED <<symbol_cache, csv_cache, dhan, url, pc, last>>

\* save_security_id_to_csv called on its own, with any key and identifier.
SaveKeys == {p \in Payloads : p.kind = "ok"}

SaveIds == {"1594", "777"}

SaveCall ==
    /\ Len(file.rows) < MaxRows
    /\ \E k \in SaveKeys, id \in SaveIds, disk \in DiskOutcomes :
        LET saved == save_security_id_to_csv(file, k.exchange, k.symbol, k.instrument,
                                             id, disk)
        IN  /\ file' = saved.file
            /\ last' = Done("save", k,
                            [NoOutcome EXCEPT !.appended = saved.ret, !.tier = file.kind,
                                              !.ret = Some(id)],
                            "none", disk, {})
    /\ UNCHANGED <<symbol_cache, csv_cache, dhan, url, pc, changes>>

\* One request at a time, the file changing under the process.
Next ==
    \/ Arrive(1)
    \/ receive_alert(1)
    \/ LoadCsvCache
    \/ DiskChange

Spec == Init /\ [][Next]_vars

\* Requests in flight together.
NextConcurrent ==
    \/ \E r \in Slots : Arrive(r)
    \/ \E r \in Slots : receive_alert(r)
    \/ LoadCsvCache

SpecConcurrent == Init /\ [][NextConcurrent]_vars

\* The append operation alone.
NextSave == SaveCall

SpecSave == Init /\ [][NextSave]_vars

(***************************************************************************)
(* What the claims speak of.                                               *)
(***************************************************************************)
Key(p) == CacheKey(p.exchange, p.symbol, p.instrument)

OkPayloads == {p \in Payloads : p.kind = "ok"}

\* The dataset-tier scan of a view for a payload's key: the matching rows.
ViewScan(data, p) ==
    IF data.loaded /\ data.cols
    THEN Matching(data, p.exchange, p.symbol, p.instrument)
    ELSE <<>>

\* The identifier the dataset tier reads off a view that has a match.
ViewId(data, p) == PyStr(ViewScan(data, p)[1]["SEM_SMST_SECURITY_ID"])

\* The file's text holds the row (key, identifier).
FileHolds(f, p, id) ==
    /\ f.kind = "ok"
    /\ \E i \in 1..Len(f.rows) :
          f.rows[i] = RawRow(p.exchange, p.symbol, p.instrument, id)

\* The rows of the file's text for a key.
FileRows(f, p) ==
    SelectSeq(f.rows,
              LAMBDA r : /\ r["SEM_EXM_EXCH_ID"] = p.exchange
                         /\ r["SEM_TRADING_SYMBOL"] = p.symbol
                         /\ r["SEM_SERIES"] = p.instrument)

\* This step completes get_security_id for payload p.
ResolveStep(p) ==
    /\ last'.seq # last.seq
    /\ last'.op = "resolve"
    /\ last'.payload = p

\* This step completes load_csv_cache.
LoadStep == last'.seq # last.seq /\ last'.op = "load"

\* This step completes save_security_id_to_csv, called on its own, for key p.
SaveStep(p) ==
    /\ last'.seq # last.seq
    /\ last'.op = "save"
    /\ last'.payload = p

\* Nothing but arrivals and rejected alerts since the operation `last` records.
JustDone == last.changes = changes

(***************************************************************************)
(* C1. Tier precedence: when the memory map holds the key and the dataset  *)
(* view holds a record for it with another identifier, get_security_id     *)
(* returns the memory map's value, and reads neither the view, the file    *)
(* nor the remote catalog.                                                 *)
(***************************************************************************)
C1_TierPrecedence ==
    [][\A p \in OkPayloads :
          ( /\ ResolveStep(p)
            /\ Key(p) \in DOMAIN symbol_cache
            /\ ViewScan(csv_cache.data, p) # <<>>
            /\ ViewId(csv_cache.data, p) # symbol_cache[Key(p)] )
          => /\ last'.ret = Some(symbol_cache[Key(p)])
             /\ ~last'.raised
             /\ ~last'.scanned /\ ~last'.file_read /\ ~last'.fetched
             /\ UNCHANGED <<symbol_cache, csv_cache, file>>]_vars

\* A resolution answered from the memory map while the view says otherwise.
C1_Witness ==
    /\ last.op = "resolve"
    /\ last.tier = "memory"
    /\ ViewScan(csv_cache.data, last.payload) # <<>>
    /\ ViewId(csv_cache.data, last.payload) # last.ret.v

(***************************************************************************)
(* C2. Write-back idempotence: for a key absent from the memory map, the   *)
(* view and the file and found by the remote lookup, two consecutive       *)
(* get_security_id calls make one remote fetch and one row append in all;  *)
(* the second is answered from the memory map with the first's identifier. *)
(* (Stated for the runs in which the disk accepts the write.)              *)
(***************************************************************************)
C2_WriteBackIdempotence ==
    [][\A p \in OkPayloads :
          ( /\ ResolveStep(p)
            /\ last.op = "resolve" /\ last.payload = p
            /\ last.tier = "remote" /\ ~last.in_file /\ last.disk = "ok" )
          => /\ ~last.raised /\ Truthy(last.ret)
             /\ last.fetched /\ last.appended
             /\ last'.tier = "memory"
             /\ ~last'.fetched /\ ~last'.appended
             /\ last'.ret = last.ret]_vars

C4_NeverRaises == last.op = "resolve" => ~last.raised

(***************************************************************************)
(* C5. Remote-hit write-back: when get_security_id returns an identifier   *)
(* from the remote tier, then on return the file holds the record, a scan  *)
(* of the view finds the key, and the memory map maps the key to the       *)
(* identifier. (Stated for the calls whose append went through.)           *)
(***************************************************************************)
C5_RemoteHitWriteBack ==
    ( /\ last.op = "resolve"
      /\ last.tier = "remote"
      /\ ~last.raised
      /\ last.appended
      /\ JustDone )
    => /\ FileHolds(file, last.payload, last.ret.v)
       /\ ViewScan(csv_cache.data, last.payload) # <<>>
       /\ Key(last.payload) \in DOMAIN symbol_cache
       /\ symbol_cache[Key(last.payload)] = last.ret.v

(***************************************************************************)
(* C6. No duplicate persistence: save_security_id_to_csv called twice with *)
(* the same key, on a file that is missing or a table without that key and *)
(* with both writes going through, returns True and then False, and leaves *)
(* exactly one row for the key.                                            *)
(***************************************************************************)
C6_NoDuplicatePersistence ==
    [][\A p \in SaveKeys :
          ( /\ SaveStep(p)
            /\ last.op = "save" /\ last.payload = p
            /\ last.tier \in {"missing", "ok"} /\ ~last.in_file
            /\ last.disk = "ok" /\ last'.disk = "ok" )
          => /\ last.appended
             /\ ~last'.appended
             /\ file' = file
             /\ Len(FileRows(file', p)) = 1]_vars

(***************************************************************************)
(* C7. Concurrent write-backs are serialized: when two resolutions of      *)
(* distinct keys that no tier holds are in flight together and both hit    *)
(* the remote tier, then after both complete the file and the view hold    *)
(* both records and the memory map both entries. (Stated for the runs in   *)
(* which the disk accepts both writes.)                                    *)
(***************************************************************************)
C7_ConcurrentWriteBacks ==
    [][\A r \in Slots, p \in OkPayloads :
          ( /\ pc[r] = "awaiting" /\ pc'[r] = "idle"
            /\ r \in last.inflight
            /\ ResolveStep(p)
            /\ last'.tier = "remote" /\ ~last'.in_file /\ last'.disk = "ok"
            /\ last.op = "resolve" /\ last.payload # p
            /\ last.tier = "remote" /\ ~last.in_file /\ last.disk = "ok" )
          => /\ ~last.raised /\ ~last'.raised
             /\ Key(p) \in DOMAIN symbol_cache'
             /\ Key(last.payload) \in DOMAIN symbol_cache'
             /\ symbol_cache'[Key(p)] = last'.ret.v
             /\ symbol_cache'[Key(last.payload)] = last.ret.v
             /\ FileHolds(file', p, last'.ret.v)
             /\ FileHolds(file', last.payload, last.ret.v)
             /\ ViewScan(csv_cache'.data, p) # <<>>
             /\ ViewScan(csv_cache'.data, last.payload) # <<>>]_vars

(***************************************************************************)
(* C8. Dataset hit promotes to memory: with the key absent from the memory *)
(* map and the view holding (NSE, INFY, EQ, 1594), resolving (INFY, EQ,    *)
(* NSE) returns "1594" without a remote call and puts the key into the     *)
(* memory map; a later resolution of the key returns "1594" whatever has   *)
(* become of the view and the file.                                        *)
(***************************************************************************)
Infy == Payload("ok", "INFY", "EQ", "NSE")

C8_DatasetHitPromotes ==
    [][/\ ( /\ ResolveStep(Infy)
            /\ Key(Infy) \notin DOMAIN symbol_cache
            /\ ViewScan(csv_cache.data, Infy) # <<>>
            /\ ViewId(csv_cache.data, Infy) = "1594" )
          => /\ last'.ret = Some("1594")
             /\ last'.tier = "dataset"
             /\ ~last'.fetched
             /\ Key(Infy) \in DOMAIN symbol_cache'
             /\ symbol_cache'[Key(Infy)] = "1594"
       /\ ( /\ ResolveStep(Infy)
            /\ Key(Infy) \in DOMAIN symbol_cache
            /\ symbol_cache[Key(Infy)] = "1594" )
          => /\ last'.ret = Some("1594")
             /\ ~last'.raised
             /\ ~last'.scanned /\ ~last'.file_read /\ ~last'.fetched]_vars

\* The second resolution, answered "1594" after the file was removed or became
\* unreadable under the process.
C8_Witness ==
    /\ last.op = "resolve"
    /\ last.payload = Infy
    /\ last.tier = "memory"
    /\ last.ret = Some("1594")
    /\ changes > 0
    /\ ~Exists(file) \/ ReadRaises(file)

(***************************************************************************)
(* C9. Provisioner decision order, as claimed: load_csv_cache (1) loads    *)
(* the file and marks the origin local whenever the file exists, with no   *)
(* download; (2) otherwise, with a URL configured, downloads, loads and    *)
(* marks the origin downloaded; (3) otherwise, or when the download fails, *)
(* creates the header-only file and marks the origin empty ("none").       *)
(***************************************************************************)
HeaderOnlyFile == ToCsv(EmptyFrame)

C9_ProvisionerOrder_AsClaimed ==
    [][LoadStep =>
        /\ Exists(file)
           => /\ ~last'.fetched
              /\ csv_cache' = CsvCache(ReadCsv(file), "None", "local_file")
              /\ file' = file
        /\ (~Exists(file) /\ url /\ last'.dl = "ok")
           => /\ last'.fetched
              /\ csv_cache' = CsvCache(ReadCsv(file'), "None", "downloaded")
        /\ (~Exists(file) /\ (~url \/ last'.dl = "fail"))
           => /\ csv_cache'.source = "none"
              /\ file' = HeaderOnlyFile]_vars

(***************************************************************************)
(* C9, amended: (1) whenever the file exists no download is attempted and  *)
(* the file is left alone; it is loaded with origin local when it can be   *)
(* read, and the origin is the load error otherwise; (2) otherwise, with a *)
(* URL configured and the download succeeding, the body is loaded with     *)
(* origin downloaded when it can be read (load error otherwise); (3)       *)
(* otherwise, or when the download fails, the origin is empty ("none") and *)
(* the header-only file exists if the disk took the write (else the file   *)
(* is still missing).                                                      *)
(***************************************************************************)
C9_ProvisionerOrder ==
    [][LoadStep =>
        /\ Exists(file)
           => /\ ~last'.fetched
              /\ file' = file
              /\ csv_cache' = IF ReadRaises(file)
                              THEN CsvCache(csv_cache.data, "Error loading CSV", "error")
                              ELSE CsvCache(ReadCsv(file), "None", "local_file")
        /\ (~Exists(file) /\ url /\ last'.dl = "ok")
           => /\ last'.fetched
              /\ Exists(file')
              /\ csv_cache' = IF ReadRaises(file')
                              THEN CsvCache(csv_cache.data, "Error loading CSV", "error")
                              ELSE CsvCache(ReadCsv(file'), "None", "downloaded")
        /\ (~Exists(file) /\ (~url \/ last'.dl = "fail"))
           => /\ csv_cache'.source = "none"
              /\ csv_cache'.data = csv_cache.data
              /\ last'.fetched = url
              /\ file' = IF last'.disk = "ok" THEN HeaderOnlyFile ELSE file]_vars

\* A load that found no file, failed to download one and left the header-only file.
C9_Witness ==
    /\ last.op = "load"
    /\ last.fetched /\ last.dl = "fail"
    /\ csv_cache.source = "none"
    /\ file = HeaderOnlyFile
    /\ JustDone

(***************************************************************************)
(* C10. Stale fallback: with a dataset file on disk that is older than the *)
(* expiry threshold, and the download failing, load_csv_cache ends with    *)
(* the expired file's records as the view, not with an empty dataset.      *)
(***************************************************************************)
C10_StaleFallback ==
    [][( /\ LoadStep
         /\ file.kind = "ok" /\ file.expired
         /\ last'.dl = "fail" )
       => /\ csv_cache'.data = ReadCsv(file)
          /\ Len(csv_cache'.data.rows) = Len(file.rows)
          /\ csv_cache'.source # "none"
          /\ file' = file]_vars

\* A load, with the download down, that left the expired file's record in the view.
C10_Witness ==
    /\ last.op = "load"
    /\ last.dl = "fail"
    /\ file.kind = "ok" /\ file.expired
    /\ url
    /\ csv_cache.data = ReadCsv(file)
    /\ ViewScan(csv_cache.data, Infy) # <<>>

(***************************************************************************)
(* C11. A load failure is converted, not propagated: when the file that    *)
(* load_csv_cache loads (the local one, or the one just downloaded) cannot *)
(* be parsed, the call returns, the origin is the load error, and the view *)
(* is an empty dataset: no record of an earlier load remains visible.      *)
(***************************************************************************)
LoadFails ==
    \/ Exists(file) /\ ReadRaises(file)
    \/ ~Exists(file) /\ url /\ last'.dl = "ok" /\ Exists(file') /\ ReadRaises(file')

C11_LoadFailureConverted ==
    [][(LoadStep /\ LoadFails)
       => /\ ~last'.raised
          /\ csv_cache'.source = "error"
          /\ csv_cache'.data.rows = <<>>]_vars

(***************************************************************************)
(* get_security_id called as a function, by a process that may have been   *)
(* started without load_csv_cache and without a broker client, and the     *)
(* process restarting on the file it left behind.                          *)
(***************************************************************************)
\* A file with two records for one key.
DupFile ==
    FileOf("ok", << RawRow("NSE", "INFY", "EQ", "1594"),
                    RawRow("NSE", "INFY", "EQ", "2222") >>)

\* A file whose identifier cell is not the text pandas writes for its value.
PaddedFile == FileOf("ok", << RawRow("NSE", "INFY", "EQ", "01594") >>)

DirectFiles == DiskFiles \cup {DupFile, PaddedFile}

InitDirect ==
    /\ symbol_cache = EmptyMap
    /\ csv_cache = CsvCache(NoData, "None", "unset")
    /\ file \in DirectFiles
    /\ dhan \in BOOLEAN
    /\ url \in BOOLEAN
    /\ pc = [r \in Slots |-> "idle"]
    /\ changes = 0
    /\ last = [op |-> "init", payload |-> NoPayload,
               ret |-> None, raised |-> FALSE, tier |-> "none", scanned |-> FALSE,
               fetched |-> FALSE, file_read |-> FALSE, appended |-> FALSE,
               in_file |-> FALSE, dl |-> "none", disk |-> "none", remote |-> "n/a",
               inflight |-> {}, changes |-> 0, seq |-> 0]

\* get_security_id(ticker_symbol, instrument, exchange), called directly.
GetSecurityId ==
    /\ \E p \in OkPayloads, remote \in RemoteOutcomes, disk \in DiskOutcomes :
        LET out == get_security_id(symbol_cache, csv_cache, file, p.symbol,
                                   p.instrument, p.exchange, dhan, remote, disk)
        IN  /\ symbol_cache' = out.symbol_cache
            /\ csv_cache' = out.csv_cache
            /\ file' = out.file
            /\ last' = [Done("resolve", p, out, "none",
                             IF out.tier = "remote" THEN disk ELSE "none", {})
                        EXCEPT !.remote = IF out.fetched THEN remote ELSE "n/a"]
    /\ UNCHANGED <<dhan, url, pc, changes>>

\* The process ends and a new one starts on the same file: the module state is
\* initialised again and load_csv_cache runs. The record of the old process's last
\* resolution is kept, marked as belonging to the process before.
Restart ==
    /\ Len(file.rows) < MaxRows
    /\ \E dl \in DownloadOutcomes, disk \in DiskOutcomes :
        LET out == load_csv_cache(CsvCache(NoData, "None", "unset"), file, url, dl, disk)
        IN  /\ csv_cache' = out.csv_cache
            /\ file' = out.file
    /\ symbol_cache' = EmptyMap
    /\ last' = [last EXCEPT !.op = "restart", !.seq = 1 - @]
    /\ UNCHANGED <<dhan, url, pc, changes>>

NextDirect ==
    \/ GetSecurityId
    \/ Restart

SpecDirect == InitDirect /\ [][NextDirect]_vars

(***************************************************************************)
(* C12. Persistence across processes: a key resolved through the remote    *)
(* tier by one process (its record appended to the file) is, after a       *)
(* restart, resolved by the dataset tier without a remote fetch, with the  *)
(* identifier text the remote tier returned.                               *)
(***************************************************************************)
C12_PersistenceAcrossProcesses ==
    [][\A p \in OkPayloads :
          ( /\ ResolveStep(p)
            /\ last.op = "restart" /\ last.payload = p
            /\ last.tier = "remote" /\ ~last.raised /\ last.appended )
          => /\ last'.tier = "dataset"
             /\ ~last'.fetched
             /\ last'.ret = last.ret]_vars

(***************************************************************************)
(* C13. The remote match respects the exchange: an identifier obtained     *)
(* from the remote tier for (symbol, instrument, exchange) is one the      *)
(* catalog lists for that symbol and series on that exchange, and so is    *)
(* the identifier of the record written back under the exchange.           *)
(***************************************************************************)
\* The catalog has a record (exchange, symbol, series) with the identifier.
CatalogLists(exchange, symbol, series, id) ==
    \E i \in 1..Len(Catalog) :
        /\ PyStr(Catalog[i]["SEM_EXM_EXCH_ID"]) = exchange
        /\ PyStr(Catalog[i]["SEM_TRADING_SYMBOL"]) = symbol
        /\ PyStr(Catalog[i]["SEM_SERIES"]) = series
        /\ PyStr(Catalog[i]["SEM_SMST_SECURITY_ID"]) = id

C13_RemoteRespectsExchange ==
    [][\A p \in OkPayloads :
          (ResolveStep(p) /\ last'.tier = "remote")
          => LET id == symbol_cache'[Key(p)]
             IN  /\ CatalogLists(p.exchange, p.symbol, p.instrument, id)
                 /\ last'.appended
                    => \E i \in 1..Len(Catalog) :
                          /\ PyStr(Catalog[i]["SEM_EXM_EXCH_ID"]) = p.exchange
                          /\ FileHolds(file', p,
                                       PyStr(Catalog[i]["SEM_SMST_SECURITY_ID"]))]_vars

(***************************************************************************)
(* C14. A remote failure yields a miss, not an abort: for a key the memory *)
(* map and the view do not hold, when there is no broker client, or the    *)
(* catalog call raises, returns nothing or returns a table without the     *)
(* expected column, get_security_id returns not-found without raising and  *)
(* the memory map, the view and the file are unchanged.                    *)
(***************************************************************************)
FailedRemote == RemoteOutcomes \ {"list"}

C14_RemoteFailureIsMiss ==
    [][\A p \in OkPayloads :
          ( /\ ResolveStep(p)
            /\ Key(p) \notin DOMAIN symbol_cache
            /\ ViewScan(csv_cache.data, p) = <<>>
            /\ ~dhan \/ last'.remote \in FailedRemote )
          => /\ last'.ret = None
             /\ ~last'.raised
             /\ last'.tier = "miss"
             /\ ~last'.appended
             /\ UNCHANGED <<symbol_cache, csv_cache, file>>]_vars

\* A miss for a key the catalog lists, the catalog call having raised.
C14_Witness ==
    /\ last.op = "resolve"
    /\ last.tier = "miss"
    /\ last.remote = "raise"
    /\ CatalogMatches(last.payload.symbol, last.payload.instrument) # <<>>
    /\ Key(last.payload) \notin DOMAIN symbol_cache

C16_MemoryWriteOnce ==
    [][\A k \in DOMAIN symbol_cache :
          /\ k \in DOMAIN symbol_cache'
          /\ symbol_cache'[k] = symbol_cache[k]]_vars

\* An entry that is still there after the file was changed and loaded again, and
\* after which another key was resolved into the map.
C16_Witness ==
    /\ last.op = "resolve"
    /\ last.tier \in {"dataset", "remote"}
    /\ changes > 0
    /\ Cardinality(DOMAIN symbol_cache) > 1
    /\ csv_cache.source # "unset"

(***************************************************************************)
(* C17. Duplicate tolerance: when the view holds several records with the  *)
(* (exchange, symbol, series) asked for, the dataset tier returns the      *)
(* identifier of the first of them in file order; when the catalog holds   *)
(* several such records, the remote tier returns the identifier of the     *)
(* first of them in catalog order.                                         *)
(***************************************************************************)
\* The records of a view whose text is the payload's key, in order.
ViewRecords(data, p) ==
    SelectSeq(data.rows,
              LAMBDA r : /\ PyStr(r["SEM_EXM_EXCH_ID"]) = p.exchange
                         /\ PyStr(r["SEM_TRADING_SYMBOL"]) = p.symbol
                         /\ PyStr(r["SEM_SERIES"]) = p.instrument)

\* The records of the catalog for the payload's key, in order.
CatalogRecords(p) ==
    SelectSeq(Catalog,
              LAMBDA r : /\ PyStr(r["SEM_EXM_EXCH_ID"]) = p.exchange
                         /\ PyStr(r["SEM_TRADING_SYMBOL"]) = p.symbol
                         /\ PyStr(r["SEM_SERIES"]) = p.instrument)

C17_FirstMatch ==
    [][\A p \in OkPayloads :
          /\ ( /\ ResolveStep(p)
               /\ last'.tier = "dataset"
               /\ Len(ViewRecords(csv_cache.data, p)) > 1 )
             => last'.ret =
                   Some(PyStr(ViewRecords(csv_cache.data, p)[1]["SEM_SMST_SECURITY_ID"]))
          /\ ( /\ ResolveStep(p)
               /\ last'.tier = "remote"
               /\ Len(CatalogRecords(p)) > 1 )
             => symbol_cache'[Key(p)] =
                   PyStr(CatalogRecords(p)[1]["SEM_SMST_SECURITY_ID"])]_vars

(***************************************************************************)
(* C18. The file is append-only under resolution: a get_security_id step   *)
(* leaves the records the file had unchanged and in place, adds at most    *)
(* one record after them, and leaves the file as it was when it appends    *)
(* nothing.                                                                *)
(***************************************************************************)
\* g is f with at most one record added at the end.
AppendOnly(f, g) ==
    /\ Len(g.rows) \in {Len(f.rows), Len(f.rows) + 1}
    /\ SubSeq(g.rows, 1, Len(f.rows)) = f.rows

C18_AppendOnly ==
    [][\A p \in OkPayloads :
          ResolveStep(p)
          => /\ AppendOnly(file, file')
             /\ ~last'.appended => file' = file]_vars

(***************************************************************************)
(* C19. The memory map agrees with the view: whenever the memory map holds *)
(* a key and the view has a record matching it, the memory value is the    *)
(* identifier of the first matching record.                                *)
(***************************************************************************)
C19_MemoryAgreesWithView ==
    \A p \in OkPayloads :
        (Key(p) \in DOMAIN symbol_cache /\ ViewScan(csv_cache.data, p) # <<>>)
        => symbol_cache[Key(p)] = ViewId(csv_cache.data, p)

(***************************************************************************)
(* C20. Candidate-key uniqueness is preserved: a get_security_id call on a *)
(* file with at most one record per (exchange, symbol, series) leaves a    *)
(* file with at most one record per tuple.                                 *)
(***************************************************************************)
\* At most one record of the file's text per key.
KeysUnique(f) ==
    \A i, j \in 1..Len(f.rows) :
        ( /\ f.rows[i]["SEM_EXM_EXCH_ID"] = f.rows[j]["SEM_EXM_EXCH_ID"]
          /\ f.rows[i]["SEM_TRADING_SYMBOL"] = f.rows[j]["SEM_TRADING_SYMBOL"]
          /\ f.rows[i]["SEM_SERIES"] = f.rows[j]["SEM_SERIES"] )
        => i = j

C20_KeyUniqueness ==
    [][\A p \in OkPayloads :
          (ResolveStep(p) /\ KeysUnique(file)) => KeysUnique(file')]_vars

====
